---- MODULE Spec2Model ----
(***************************************************************************)
(* Paper-trading wallet: the trade ledger and P&L engine of                *)
(* src/wallet_manager.py (class WalletManager) as driven by src/app.py.    *)
(*                                                                         *)
(* Money amounts are Python floats in the source.  They are modelled as    *)
(* exact rationals <<numerator, denominator>> in lowest terms, so that     *)
(* the average-price division is a real division and not an integer one;   *)
(* float rounding is therefore not part of this model.                     *)
(***************************************************************************)
EXTENDS Integers, Sequences, FiniteSets, TLC

\* ------------------------------------------------------------------ bounds

\* Number of handler calls explored in one behaviour.
MaxOps == 3

\* ------------------------------------------------------- exact arithmetic

Abs(x) == IF x < 0 THEN -x ELSE x

RECURSIVE Gcd(_, _)
Gcd(a, b) == IF b = 0 THEN a ELSE Gcd(b, a % b)

\* A rational in lowest terms with a positive denominator.
Norm(n, d) ==
    LET g == Gcd(Abs(n), Abs(d))
        s == IF d < 0 THEN -1 ELSE 1
    IN  <<(s * n) \div g, (s * d) \div g>>

R(i) == <<i, 1>>
Zero == R(0)
RAdd(x, y) == Norm(x[1] * y[2] + y[1] * x[2], x[2] * y[2])
RSub(x, y) == Norm(x[1] * y[2] - y[1] * x[2], x[2] * y[2])
RMul(x, y) == Norm(x[1] * y[1], x[2] * y[2])
\* x / y for y # 0 (the callers test for the zero divisor first).
RDiv(x, y) == Norm(x[1] * y[2], x[2] * y[1])
RGeq(x, y) == x[1] * y[2] >= y[1] * x[2]
RLt(x, y) == x[1] * y[2] < y[1] * x[2]

\* ------------------------------------------------------------ the domain

Sessions == {"s1", "s2"}
Users == {"u1", "u2"}
NoUser == "-"
Instruments == {"24000 CE", "24000 PE"}

\* Inputs the front end can supply (src/app.py: quantity >= one lot, prices
\* from the option chain), scaled down: one unit stands for one lot.
Quantities == {1, 2}
Prices == {R(0), R(100), R(50000)}
Sides == {"BUY", "SELL"}

\* The prices of the runs in which database writes may raise.
FaultPrices == {R(100), R(50000)}

\* Inputs a direct caller of execute_trade can supply.
AnyQuantities == {-1, 0, 1}
AnySides == {"BUY", "SELL", "HOLD"}

\* New User Defaults.
InitialBalance == 100000

\* A dictionary key that is not present.
None == <<>>

\* ------------------------------------------------------------- positions

\* A position that stores the cost of the buy as its average price.
NewPositionAtCost(instrument, quantity, price) ==
    [instrument |-> instrument, type |-> "BUY", qty |-> quantity,
     avg_price |-> RMul(R(quantity), price), status |-> "OPEN",
     current_price |-> None, unrealized_pnl |-> None]

\* The dictionary appended by a BUY of an instrument with no position; the
\* keys current_price and unrealized_pnl are absent until update_pnl_heatmap
\* sets them.  The key timestamp (the wall clock) is left out: nothing reads
\* it.
NewPosition(instrument, quantity, price) ==
    [instrument |-> instrument, type |-> "BUY", qty |-> quantity,
     avg_price |-> price, status |-> "OPEN",
     current_price |-> None, unrealized_pnl |-> None]

\* A lookup that never finds the instrument.
FindNoPosition(positions, instrument) == 0

\* The first position in the list, whatever its instrument.
FindAnyPosition(positions, instrument) ==
    IF Len(positions) > 0 THEN 1 ELSE 0

\* next((p for p in positions if p['instrument'] == instrument), None):
\* the index of the first match, 0 for None.
FindPosition(positions, instrument) ==
    IF \E i \in 1..Len(positions) : positions[i].instrument = instrument
    THEN CHOOSE i \in 1..Len(positions) :
            /\ positions[i].instrument = instrument
            /\ \A j \in 1..(i - 1) : positions[j].instrument # instrument
    ELSE 0

\* The closed position left in the list.
ListKeep(positions, x) == positions

\* list.pop(): drops the last element.
ListPop(positions, x) == SubSeq(positions, 1, Len(positions) - 1)

\* list.remove(x): drops the first element equal to x.
ListRemove(positions, x) ==
    LET k == CHOOSE i \in 1..Len(positions) :
                /\ positions[i] = x
                /\ \A j \in 1..(i - 1) : positions[j] # x
    IN  SubSeq(positions, 1, k - 1) \o SubSeq(positions, k + 1, Len(positions))

\* ------------------------------------------------------- result messages

Msg(kind, qty, amount) == [kind |-> kind, qty |-> qty, amount |-> amount]
MsgBuyExecuted == Msg("Buy Order Executed", 0, Zero)
MsgInsufficientBalance == Msg("Insufficient Balance", 0, Zero)
MsgNoOpenPosition == Msg("No open position to sell.", 0, Zero)
MsgNotEnough(have) == Msg("Not enough quantity. You have", have, Zero)
MsgSold(quantity, chunk) == Msg("Sold", quantity, chunk)
MsgEmpty == Msg("", 0, Zero)

\* ------------------------------------------------ execute_trade, in memory

\* The outcome of the in-memory part of execute_trade on the session
\* account acc = [balance, pnl, positions]:
\*   success  the local flag `success` at line 150;
\*   raised   an exception left the function (ZeroDivisionError at line 103);
\*   acc      the session account as the code leaves it;
\*   msg      the returned message.
Outcome(success, raised, acc, msg) ==
    [success |-> success, raised |-> raised, acc |-> acc, msg |-> msg]

\* No balance check.
CanAffordAlways(balance, cost) == TRUE

\* cost >= st.session_state.balance
CanAffordReversed(balance, cost) == RGeq(cost, balance)

\* st.session_state.balance >= cost
CanAfford(balance, cost) == RGeq(balance, cost)

\* existing_pos['avg_price'] + cost
TotalCostUnweighted(old_qty, old_avg, cost) == RAdd(old_avg, cost)

\* (existing_pos['qty'] * existing_pos['avg_price']) + cost
TotalCost(old_qty, old_avg, cost) == RAdd(RMul(R(old_qty), old_avg), cost)

\* total_cost / total_qty
AveragePrice(total_cost, total_qty) == RDiv(total_cost, R(total_qty))

Buy(acc, instrument, quantity, price) ==
    LET cost == RMul(R(quantity), price)
        k == FindPosition(acc.positions, instrument)
        paid == [acc EXCEPT !.balance = RSub(acc.balance, cost)]
    IN  IF ~CanAfford(acc.balance, cost)
        THEN Outcome(FALSE, FALSE, acc, MsgInsufficientBalance)
        ELSE IF k = 0
        THEN Outcome(TRUE, FALSE,
                 [paid EXCEPT !.positions =
                     Append(acc.positions, NewPosition(instrument, quantity, price))],
                 MsgBuyExecuted)
        ELSE LET old == acc.positions[k]
                 total_qty == old.qty + quantity
                 total_cost == TotalCost(old.qty, old.avg_price, cost)
             IN  IF total_qty = 0
                 THEN \* line 102 has run, line 103 raises ZeroDivisionError
                      Outcome(FALSE, TRUE,
                          [paid EXCEPT !.positions[k].qty = total_qty],
                          MsgEmpty)
                 ELSE Outcome(TRUE, FALSE,
                          [paid EXCEPT
                              !.positions[k].qty = total_qty,
                              !.positions[k].avg_price =
                                  AveragePrice(total_cost, total_qty)],
                          MsgBuyExecuted)

\* existing_pos['qty'] > quantity
NotEnoughReversed(held, quantity) == held > quantity

\* existing_pos['qty'] < quantity
NotEnough(held, quantity) == held < quantity

\* price * quantity: the proceeds booked as the profit.
PnlChunkProceeds(price, buy_avg, quantity) == RMul(price, R(quantity))

\* price - buy_avg
PnlChunkPerUnit(price, buy_avg, quantity) == RSub(price, buy_avg)

\* (price - buy_avg) * quantity
PnlChunk(price, buy_avg, quantity) == RMul(RSub(price, buy_avg), R(quantity))

Sell(acc, instrument, quantity, price) ==
    LET cost == RMul(R(quantity), price)
        k == FindPosition(acc.positions, instrument)
    IN  IF k = 0
        THEN Outcome(FALSE, FALSE, acc, MsgNoOpenPosition)
        ELSE LET old == acc.positions[k]
                 pnl_chunk == PnlChunk(price, old.avg_price, quantity)
                 left == [old EXCEPT !.qty = old.qty - quantity]
                 held == [acc.positions EXCEPT ![k] = left]
             IN  IF NotEnough(old.qty, quantity)
                 THEN Outcome(FALSE, FALSE, acc, MsgNotEnough(old.qty))
                 ELSE Outcome(TRUE, FALSE,
                          [balance |-> RAdd(acc.balance, cost),
                           pnl |-> RAdd(acc.pnl, pnl_chunk),
                           positions |->
                               IF left.qty = 0 THEN ListRemove(held, left)
                               ELSE held],
                          MsgSold(quantity, pnl_chunk))

\* The branch on the free-form string `type`; neither branch runs for a
\* string other than "BUY" and "SELL".
Trade(acc, type, instrument, quantity, price) ==
    IF type = "BUY" THEN Buy(acc, instrument, quantity, price)
    ELSE IF type = "SELL" THEN Sell(acc, instrument, quantity, price)
    ELSE Outcome(FALSE, FALSE, acc, MsgEmpty)

\* ------------------------------------------------------------------ state

VARIABLES
    username,     \* st.session_state.username of each browser session
    state,        \* st.session_state balance / pnl / positions of each session
    user_state,   \* table user_state: one snapshot row per username
    trade_logs,   \* table trade_logs, in id order
    last,         \* the last handler call and what it returned
    pre,          \* the session account and the tables before that call
    ledger,       \* per session: what the successful trades so far add up to
    journal,      \* per user: the successful trades since the user's last reset
    ops           \* handler calls so far

vars ==
    <<username, state, user_state, trade_logs, last, pre, ledger, journal, ops>>

\* A row of user_state; NoRow when SELECT finds none.
Row(acc) ==
    [exists |-> TRUE, balance |-> acc.balance, pnl |-> acc.pnl,
     positions |-> acc.positions]
NoRow == [exists |-> FALSE]

\* The three account keys of a session state.
Account(st) == [balance |-> st.balance, pnl |-> st.pnl, positions |-> st.positions]
Loaded(acc) ==
    [loaded |-> TRUE, balance |-> acc.balance, pnl |-> acc.pnl,
     positions |-> acc.positions]
\* A session state without the key 'balance'.
Unloaded == [loaded |-> FALSE, balance |-> None, pnl |-> None, positions |-> <<>>]

DefaultAccount == [balance |-> R(InitialBalance), pnl |-> Zero, positions |-> <<>>]

\* WalletManager.__init__ -> _load_user_data: what the session state and the
\* user's row are once the wallet object exists.
LoadUserData(st, row) ==
    IF st.loaded THEN [st |-> st, row |-> row]
    ELSE IF row.exists
    THEN [st |-> Loaded([balance |-> row.balance, pnl |-> row.pnl,
                         positions |-> row.positions]),
          row |-> row]
    ELSE [st |-> Loaded(DefaultAccount), row |-> Row(DefaultAccount)]

\* A snapshot written without the positions column.
SaveStateNoPositions(acc) == Row([acc EXCEPT !.positions = <<>>])

\* _save_state: INSERT OR REPLACE of the whole snapshot.  json.dumps writes
\* every key of every position dictionary and json.loads reads them back.
SaveState(acc) == Row(acc)

\* _log_trade: the row written to trade_logs.
LogEntry(user, action, instrument, qty, price) ==
    [username |-> user, action |-> action, instrument |-> instrument,
     qty |-> qty, price |-> price]

\* A row written in front of the table instead of after its last row.
LogTradeInFront(logs, user, action, instrument, qty, price) ==
    <<LogEntry(user, action, instrument, qty, price)>> \o logs

\* _log_trade: the INSERT, after the rows the table has.
LogTrade(logs, user, action, instrument, qty, price) ==
    Append(logs, LogEntry(user, action, instrument, qty, price))

\* What the tail of a call leaves: the value returned ("True", "False") or
\* "raised", the user's row, the log table, whether _save_state and
\* _log_trade completed, and the storage statement that raised.
Stored(result, row, logs, saved, logged, failed) ==
    [result |-> result, row |-> row, logs |-> logs, saved |-> saved,
     logged |-> logged, failed |-> failed]

\* _log_trade called before _save_state.
PersistLogFirst(o, row, logs, user, type, instrument, quantity, price, fault) ==
    IF o.raised
    THEN Stored("raised", row, logs, FALSE, FALSE, "none")
    ELSE IF ~o.success
    THEN Stored("False", row, logs, FALSE, FALSE, "none")
    ELSE IF fault = "log"
    THEN Stored("raised", row, logs, FALSE, FALSE, "log")
    ELSE IF fault = "save"
    THEN Stored("raised", row,
                LogTrade(logs, user, type, instrument, quantity, price),
                FALSE, TRUE, "save")
    ELSE Stored("True", SaveState(o.acc),
                LogTrade(logs, user, type, instrument, quantity, price),
                TRUE, TRUE, "none")

\* Lines 150-155: what a call whose in-memory part ended in outcome o does to
\* the two tables and what it returns.  fault names the statement of the
\* storage layer that raises, if any: "save" (_save_state) or "log"
\* (_log_trade); "none" when the database works.
Persist(o, row, logs, user, type, instrument, quantity, price, fault) ==
    IF o.raised
    THEN Stored("raised", row, logs, FALSE, FALSE, "none")
    ELSE IF ~o.success
    THEN Stored("False", row, logs, FALSE, FALSE, "none")
    ELSE IF fault = "save"
    THEN Stored("raised", row, logs, FALSE, FALSE, "save")
    ELSE IF fault = "log"
    THEN Stored("raised", SaveState(o.acc), logs, TRUE, FALSE, "log")
    ELSE Stored("True", SaveState(o.acc),
                LogTrade(logs, user, type, instrument, quantity, price),
                TRUE, TRUE, "none")

\* The place of the instrument's position in a position list, 0 when the
\* list holds none for it.
Held(positions, instrument) ==
    LET at == {i \in 1..Len(positions) : positions[i].instrument = instrument}
    IN  IF at = {} THEN 0 ELSE CHOOSE i \in at : \A j \in at : i <= j

\* What the successful trades of a session add up to (not program state).
NoBuys == [i \in Instruments |-> [qty |-> 0, cost |-> Zero]]
FreshLedger == [buys |-> NoBuys, spent |-> Zero, sells |-> 0, chunks |-> Zero]

Record(l, acc, type, instrument, quantity, price) ==
    LET cost == RMul(R(quantity), price)
        k == Held(acc.positions, instrument)
    IN  IF type = "BUY"
        THEN [l EXCEPT !.buys[instrument] =
                           [qty |-> @.qty + quantity, cost |-> RAdd(@.cost, cost)],
                       !.spent = RAdd(@, cost)]
        ELSE IF k = 0
        THEN [l EXCEPT !.sells = @ + 1]
        ELSE [l EXCEPT !.sells = @ + 1,
                       !.chunks = RAdd(@, RMul(RSub(price, acc.positions[k].avg_price),
                                               R(quantity)))]

NoCall == [op |-> "none"]

\* ------------------------------------------------------ update_pnl_heatmap

\* The live prices a page run can hand over for one instrument: no key, a
\* quote without last_price (kite_manager.py:117 puts 0), a price.
LivePrices == {None, R(0), R(120)}
LiveMaps == [Instruments -> LivePrices]

\* `if ltp:` with ltp = current_ltp_dict.get(inst): None and 0 are falsy.
HasPrice(ltp) == ltp # None /\ ltp # Zero

\* (ltp - avg) * qty
PosPnl(ltp, avg, qty) == RMul(RSub(ltp, avg), R(qty))

\* A variant that forgets the previous unrealized P&L of a position without
\* a live price.
UnrealizedReset(pos) == Zero

\* pos.get('unrealized_pnl', 0.0)
UnrealizedOf(pos) == IF pos.unrealized_pnl = None THEN Zero ELSE pos.unrealized_pnl

\* One turn of the loop at lines 171-185: the position as the loop leaves it.
MarkPosition(pos, ltp) ==
    IF HasPrice(ltp)
    THEN [pos EXCEPT !.current_price = ltp,
                     !.unrealized_pnl = PosPnl(ltp, pos.avg_price, pos.qty)]
    ELSE [pos EXCEPT !.unrealized_pnl = UnrealizedOf(pos)]

RECURSIVE MarkAll(_, _)
MarkAll(positions, ltps) ==
    IF positions = <<>> THEN <<>>
    ELSE <<MarkPosition(Head(positions), ltps[Head(positions).instrument])>>
             \o MarkAll(Tail(positions), ltps)

\* The local `unrealized` once the loop is over.
RECURSIVE SumUnrealized(_)
SumUnrealized(positions) ==
    IF positions = <<>> THEN Zero
    ELSE RAdd(Head(positions).unrealized_pnl, SumUnrealized(Tail(positions)))

\* A variant that books the unrealized P&L into the realized P&L.
UpdatePnlHeatmapRealizing(acc, ltps) ==
    LET marked == MarkAll(acc.positions, ltps)
        total == RAdd(acc.pnl, SumUnrealized(marked))
    IN  [acc |-> [acc EXCEPT !.positions = marked, !.pnl = total],
         total |-> total]

\* update_pnl_heatmap: the session account it leaves and the total returned.
UpdatePnlHeatmap(acc, ltps) ==
    LET marked == MarkAll(acc.positions, ltps)
    IN  [acc |-> [acc EXCEPT !.positions = marked],
         total |-> RAdd(acc.pnl, SumUnrealized(marked))]

\* ------------------------------------------------------------ reset_account

\* DELETE FROM trade_logs without the WHERE clause.
DeleteAllLogs(logs, user) == <<>>

\* DELETE FROM trade_logs WHERE username=?
DeleteLogs(logs, user) == SelectSeq(logs, LAMBDA e : e.username # user)

\* Lines 196-205 of reset_account, after the session state was set to the
\* defaults: the snapshot write, then the log delete, each free to raise
\* ("save", "delete").
ResetStore(row, logs, user, fault) ==
    IF fault = "save"
    THEN Stored("raised", row, logs, FALSE, FALSE, "save")
    ELSE IF fault = "delete"
    THEN Stored("raised", SaveState(DefaultAccount), logs, TRUE, FALSE, "delete")
    ELSE Stored("True", SaveState(DefaultAccount), DeleteLogs(logs, user),
                TRUE, FALSE, "none")

\* ---------------------------------------------------------------- actions

\* A rerun of the page script that submits a trade: WalletManager(username)
\* at app.py:44, then wallet.execute_trade(...) at app.py:226 or 314.
ExecuteTrade(s, type, instrument, quantity, price, fault) ==
    /\ ops < MaxOps
    /\ username[s] # NoUser
    /\ LET u == username[s]
           w == LoadUserData(state[s], user_state[u])
           acc == Account(w.st)
           o == Trade(acc, type, instrument, quantity, price)
           p == Persist(o, w.row, trade_logs, u, type, instrument, quantity,
                        price, fault)
       IN  /\ state' = [state EXCEPT ![s] = Loaded(o.acc)]
           /\ user_state' = [user_state EXCEPT ![u] = p.row]
           /\ trade_logs' = p.logs
           /\ last' = [op |-> "execute_trade", session |-> s, user |-> u,
                       type |-> type, instrument |-> instrument,
                       quantity |-> quantity, price |-> price,
                       result |-> p.result,
                       msg |-> IF p.result = "raised" THEN MsgEmpty ELSE o.msg,
                       saved |-> p.saved, logged |-> p.logged,
                       failed |-> p.failed]
           /\ pre' = [acc |-> acc, row |-> w.row, logs |-> trade_logs]
           /\ ledger' = IF p.result = "True"
                        THEN [ledger EXCEPT ![s] =
                                 Record(@, acc, type, instrument, quantity, price)]
                        ELSE ledger
           /\ journal' = IF p.result = "True"
                         THEN [journal EXCEPT ![u] =
                                  Append(@, LogEntry(u, type, instrument,
                                                     quantity, price))]
                         ELSE journal
    /\ ops' = ops + 1
    /\ UNCHANGED username

\* A page run with no button pressed (the auto-refresh): WalletManager(username)
\* at app.py:44, then wallet.update_pnl_heatmap(current_prices) at app.py:251.
Refresh(s, ltps) ==
    /\ ops < MaxOps
    /\ username[s] # NoUser
    /\ LET u == username[s]
           w == LoadUserData(state[s], user_state[u])
           acc == Account(w.st)
           m == UpdatePnlHeatmap(acc, ltps)
       IN  /\ state' = [state EXCEPT ![s] = Loaded(m.acc)]
           /\ user_state' = [user_state EXCEPT ![u] = w.row]
           /\ last' = [op |-> "update_pnl_heatmap", session |-> s, user |-> u,
                       prices |-> ltps, total |-> m.total, result |-> "total",
                       saved |-> FALSE, logged |-> FALSE, failed |-> "none"]
           /\ pre' = [acc |-> acc, row |-> w.row, logs |-> trade_logs]
    /\ ops' = ops + 1
    /\ UNCHANGED <<username, trade_logs, ledger, journal>>

\* A page run with the Reset Account button pressed: WalletManager(username)
\* at app.py:44, then wallet.reset_account() at app.py:55.
ResetAccount(s, fault) ==
    /\ ops < MaxOps
    /\ username[s] # NoUser
    /\ LET u == username[s]
           w == LoadUserData(state[s], user_state[u])
           p == ResetStore(w.row, trade_logs, u, fault)
       IN  /\ state' = [state EXCEPT ![s] = Loaded(DefaultAccount)]
           /\ user_state' = [user_state EXCEPT ![u] = p.row]
           /\ trade_logs' = p.logs
           /\ last' = [op |-> "reset_account", session |-> s, user |-> u,
                       result |-> p.result, saved |-> p.saved,
                       logged |-> p.logged, failed |-> p.failed]
           /\ pre' = [acc |-> Account(w.st), row |-> w.row, logs |-> trade_logs]
           /\ ledger' = [ledger EXCEPT ![s] = FreshLedger]
           /\ journal' = IF p.result = "True"
                         THEN [journal EXCEPT ![u] = <<>>]
                         ELSE journal
    /\ ops' = ops + 1
    /\ UNCHANGED username

\* The login form submitted (app.py:32-34) and the page run that st.rerun()
\* starts at once, up to WalletManager(username) at app.py:44.
Login(s, u) ==
    /\ username[s] = NoUser
    /\ LET w == LoadUserData(state[s], user_state[u])
       IN  /\ username' = [username EXCEPT ![s] = u]
           /\ state' = [state EXCEPT ![s] = w.st]
           /\ user_state' = [user_state EXCEPT ![u] = w.row]
           /\ last' = [op |-> "login", session |-> s, user |-> u,
                       result |-> "rerun", saved |-> w.row # user_state[u],
                       logged |-> FALSE, failed |-> "none"]
           /\ pre' = [acc |-> Account(state[s]), row |-> user_state[u],
                      logs |-> trade_logs]
    /\ UNCHANGED <<trade_logs, ledger, journal, ops>>

\* The Logout button (app.py:48-51): the run built the wallet at line 44,
\* then username = None and positions = []; balance and pnl stay.
Logout(s) ==
    /\ username[s] # NoUser
    /\ LET u == username[s]
           w == LoadUserData(state[s], user_state[u])
       IN  /\ username' = [username EXCEPT ![s] = NoUser]
           /\ state' = [state EXCEPT ![s] = [w.st EXCEPT !.positions = <<>>]]
           /\ user_state' = [user_state EXCEPT ![u] = w.row]
           /\ last' = [op |-> "logout", session |-> s, user |-> u,
                       result |-> "rerun", saved |-> FALSE, logged |-> FALSE,
                       failed |-> "none"]
           /\ pre' = [acc |-> Account(w.st), row |-> w.row, logs |-> trade_logs]
    /\ UNCHANGED <<trade_logs, ledger, journal, ops>>

\* ------------------------------------------------------------ specifications

\* One browser session of user u1, just after the first page run has built
\* the wallet of a user with no row yet (defaults loaded and saved).
Init ==
    /\ username = [s \in Sessions |-> IF s = "s1" THEN "u1" ELSE NoUser]
    /\ state = [s \in Sessions |->
                   IF s = "s1" THEN Loaded(DefaultAccount) ELSE Unloaded]
    /\ user_state = [u \in Users |->
                        IF u = "u1" THEN Row(DefaultAccount) ELSE NoRow]
    /\ trade_logs = <<>>
    /\ last = NoCall
    /\ pre = [acc |-> DefaultAccount, row |-> NoRow, logs |-> <<>>]
    /\ ledger = [s \in Sessions |-> FreshLedger]
    /\ journal = [u \in Users |-> <<>>]
    /\ ops = 0

\* The front end's inputs, the database working.
Next ==
    \E type \in Sides, i \in Instruments, q \in Quantities, p \in Prices :
        ExecuteTrade("s1", type, i, q, p, "none")

Spec == Init /\ [][Next]_vars

\* Any caller's inputs, the database working.
NextAny ==
    \E type \in AnySides, i \in Instruments, q \in AnyQuantities, p \in Prices :
        ExecuteTrade("s1", type, i, q, p, "none")

SpecAny == Init /\ [][NextAny]_vars

\* The front end's inputs, each database write free to raise.
NextFail ==
    \/ \E type \in Sides, i \in Instruments, q \in Quantities, p \in FaultPrices,
          fault \in {"none", "save", "log"} :
           ExecuteTrade("s1", type, i, q, p, fault)
    \/ \E fault \in {"none", "save", "delete"} : ResetAccount("s1", fault)

SpecFail == Init /\ [][NextFail]_vars

\* The account another user left behind in an earlier session: one unit
\* bought at 100.
OtherHistory == <<LogEntry("u2", "BUY", "24000 CE", 1, R(100))>>
OtherAccount ==
    [balance |-> R(InitialBalance - 100), pnl |-> Zero,
     positions |-> <<NewPosition("24000 CE", 1, R(100))>>]

\* User u1 has logged in for the first time and the page has not run yet
\* (no key 'balance', no row); the tables hold what u2 left.
InitPage ==
    /\ username = [s \in Sessions |-> IF s = "s1" THEN "u1" ELSE NoUser]
    /\ state = [s \in Sessions |-> Unloaded]
    /\ user_state = [u \in Users |->
                        IF u = "u2" THEN Row(OtherAccount) ELSE NoRow]
    /\ trade_logs = OtherHistory
    /\ last = NoCall
    /\ pre = [acc |-> DefaultAccount, row |-> NoRow, logs |-> OtherHistory]
    /\ ledger = [s \in Sessions |-> FreshLedger]
    /\ journal = [u \in Users |-> IF u = "u2" THEN OtherHistory ELSE <<>>]
    /\ ops = 0

\* Every page run of one session: trades, refreshes with live prices, resets.
NextPage ==
    \/ \E type \in Sides, i \in Instruments, q \in Quantities, p \in Prices :
           ExecuteTrade("s1", type, i, q, p, "none")
    \/ \E ltps \in LiveMaps : Refresh("s1", ltps)
    \/ ResetAccount("s1", "none")

SpecPage == InitPage /\ [][NextPage]_vars

\* One browser session in which users log out and in.
NextLogin ==
    \/ \E type \in Sides, i \in Instruments, q \in Quantities, p \in FaultPrices :
           ExecuteTrade("s1", type, i, q, p, "none")
    \/ \E u \in Users : Login("s1", u)
    \/ Logout("s1")

SpecLogin == Init /\ [][NextLogin]_vars

\* Two browser sessions of the same user, both pages already open.
InitConc ==
    /\ username = [s \in Sessions |-> "u1"]
    /\ state = [s \in Sessions |-> Loaded(DefaultAccount)]
    /\ user_state = [u \in Users |->
                        IF u = "u1" THEN Row(DefaultAccount) ELSE NoRow]
    /\ trade_logs = <<>>
    /\ last = NoCall
    /\ pre = [acc |-> DefaultAccount, row |-> NoRow, logs |-> <<>>]
    /\ ledger = [s \in Sessions |-> FreshLedger]
    /\ journal = [u \in Users |-> <<>>]
    /\ ops = 0

NextConc ==
    \/ \E s \in Sessions, type \in Sides, i \in Instruments, q \in Quantities,
          p \in FaultPrices :
           ExecuteTrade(s, type, i, q, p, "none")
    \/ \E s \in Sessions : ResetAccount(s, "none")

SpecConc == InitConc /\ [][NextConc]_vars

\* What an earlier run left for u1: one position, bought for 100.
HeldHistory == <<LogEntry("u1", "BUY", "24000 PE", 1, R(100))>>
HeldAccount ==
    [balance |-> R(InitialBalance - 100), pnl |-> Zero,
     positions |-> <<NewPosition("24000 PE", 1, R(100))>>]

\* User u1 comes back to an account with an open position: the browser
\* session is new (no key 'balance'), the row and the log row are there.
InitHeld ==
    /\ username = [s \in Sessions |-> IF s = "s1" THEN "u1" ELSE NoUser]
    /\ state = [s \in Sessions |-> Unloaded]
    /\ user_state = [u \in Users |->
                        IF u = "u1" THEN Row(HeldAccount) ELSE NoRow]
    /\ trade_logs = HeldHistory
    /\ last = NoCall
    /\ pre = [acc |-> HeldAccount, row |-> Row(HeldAccount), logs |-> HeldHistory]
    /\ ledger = [s \in Sessions |->
                    IF s = "s1"
                    THEN Record(FreshLedger, DefaultAccount, "BUY", "24000 PE",
                                1, R(100))
                    ELSE FreshLedger]
    /\ journal = [u \in Users |-> IF u = "u1" THEN HeldHistory ELSE <<>>]
    /\ ops = 0

\* The trades of the front end on that account.
SpecHeld == InitHeld /\ [][Next]_vars

\* ------------------------------------------------------------- properties

\* The last call was execute_trade with this `type`.
LastTrade(type) == last.op = "execute_trade" /\ last.type = type

\* The session account now, of the session the last call ran in.
Now == Account(state[last.session])

\* Nothing of the account changed in the last call, in memory or in the
\* tables: no snapshot written, no log row appended.
Untouched ==
    /\ Now = pre.acc
    /\ user_state[last.user] = pre.row
    /\ trade_logs = pre.logs
    /\ ~last.saved
    /\ ~last.logged

LastCost == RMul(R(last.quantity), last.price)

\* C1: a BUY whose cost (quantity x price) exceeds the balance returns
\* (False, "Insufficient Balance") and leaves balance, realized P&L and the
\* positions as they were, with no snapshot written and no log row appended.
C1_BuyOverBalanceRejected ==
    (LastTrade("BUY") /\ RLt(pre.acc.balance, LastCost)) =>
        /\ last.result = "False"
        /\ last.msg = MsgInsufficientBalance
        /\ Untouched

\* C1's case: an account that already holds a position refuses a BUY it
\* cannot pay for.
C1_Witness ==
    /\ LastTrade("BUY")
    /\ RLt(pre.acc.balance, LastCost)
    /\ pre.acc.positions # <<>>
    /\ last.result = "False"

\* Where the instrument of the last call had its position before the call
\* (0: nowhere), and that position's open quantity.
PlaceBefore == Held(pre.acc.positions, last.instrument)
HeldBefore == pre.acc.positions[PlaceBefore].qty

\* C2: a SELL of more than the open quantity of the instrument's position
\* returns False with the message that states the available quantity and
\* leaves the account, the snapshot and the log as they were; the same call
\* made again is refused again and changes nothing.
C2_OversellRejected ==
    (LastTrade("SELL") /\ PlaceBefore # 0 /\ last.quantity > HeldBefore) =>
        /\ last.result = "False"
        /\ last.msg = MsgNotEnough(HeldBefore)
        /\ Untouched
        /\ LET again == Trade(Now, "SELL", last.instrument, last.quantity,
                              last.price)
           IN  ~again.success /\ ~again.raised /\ again.acc = Now

\* C2's case: one unit is held and two are asked for.
C2_Witness ==
    /\ LastTrade("SELL")
    /\ PlaceBefore # 0
    /\ HeldBefore = 1
    /\ last.quantity = 2
    /\ last.result = "False"

\* C3: a SELL of an instrument with no position in the account returns
\* (False, "No open position to sell.") and changes nothing, also when the
\* instrument's position was closed by an earlier sell.
C3_SellWithoutPositionRejected ==
    (LastTrade("SELL") /\ PlaceBefore = 0) =>
        /\ last.result = "False"
        /\ last.msg = MsgNoOpenPosition
        /\ Untouched

\* C3's case: the instrument was bought and sold out before (both are in
\* the log) and is sold once more, while the session goes on.
C3_Witness ==
    /\ LastTrade("SELL")
    /\ PlaceBefore = 0
    /\ last.result = "False"
    /\ \E n \in 1..Len(pre.logs) :
          /\ pre.logs[n].action = "SELL"
          /\ pre.logs[n].instrument = last.instrument

\* C4: as long as every successful trade of a session that started on the
\* default account was a BUY, each instrument bought has one position whose
\* quantity is the sum of the bought quantities and whose avg_price is the
\* sum of quantity x price over the sum of the quantities, an instrument
\* never bought has none, and balance is 100000 minus the cost of all buys.
C4_BuysWeightedAverage ==
    \A s \in Sessions :
        (state[s].loaded /\ ledger[s].sells = 0) =>
            /\ state[s].balance = RSub(R(InitialBalance), ledger[s].spent)
            /\ \A i \in Instruments :
                  LET k == Held(state[s].positions, i)
                      b == ledger[s].buys[i]
                  IN  IF b.qty = 0 THEN k = 0
                      ELSE /\ k # 0
                           /\ state[s].positions[k].qty = b.qty
                           /\ state[s].positions[k].avg_price =
                                  RDiv(b.cost, R(b.qty))

\* C4's case: buys at different prices whose weighted average is not a
\* whole number (three units, average with denominator 3).
C4_Witness ==
    \E s \in Sessions :
        /\ state[s].loaded
        /\ ledger[s].sells = 0
        /\ \E k \in 1..Len(state[s].positions) :
              /\ state[s].positions[k].qty = 3
              /\ state[s].positions[k].avg_price[2] = 3

\* C5: a successful SELL of q units of a position of Q units removes the
\* position when q = Q and otherwise leaves it in place with Q - q units and
\* the avg_price it had; balance grows by q x price and every other position
\* is as it was, in the same order.
C5_SellSettlesPosition ==
    (LastTrade("SELL") /\ last.result = "True") =>
        LET k == Held(pre.acc.positions, last.instrument)
            before == pre.acc.positions
        IN  /\ k # 0
            /\ Now.balance = RAdd(pre.acc.balance, LastCost)
            /\ IF last.quantity = before[k].qty
               THEN Now.positions =
                        SubSeq(before, 1, k - 1) \o SubSeq(before, k + 1, Len(before))
               ELSE /\ last.quantity < before[k].qty
                    /\ Now.positions =
                           [before EXCEPT ![k].qty = before[k].qty - last.quantity]

\* C5's case: two positions are held and the first one is sold out.
C5_Witness ==
    /\ LastTrade("SELL")
    /\ last.result = "True"
    /\ Len(pre.acc.positions) = 2
    /\ pre.acc.positions[1].instrument = last.instrument
    /\ last.quantity = pre.acc.positions[1].qty
    /\ Len(Now.positions) = 1

\* C6: realized P&L is the sum, over the successful sells so far, of
\* (sell price - avg_price at that moment) x sold quantity; a call that is
\* not a successful SELL leaves it as it was.
C6_RealizedPnlIsSumOfChunks ==
    /\ \A s \in Sessions : state[s].loaded => state[s].pnl = ledger[s].chunks
    /\ (last.op = "execute_trade" /\ ~(last.type = "SELL" /\ last.result = "True"))
          => Now.pnl = pre.acc.pnl

\* C6's case: two sells of one position at different prices, chunks that do
\* not cancel.
C6_Witness ==
    /\ ledger["s1"].sells = 2
    /\ state["s1"].pnl # Zero
    /\ trade_logs[2].price # trade_logs[3].price

\* C7: execute_trade with a quantity of zero or less, BUY or SELL, returns
\* False with a message and leaves the account, the snapshot and the log as
\* they were.
C7_NonPositiveQuantityRejected ==
    (last.op = "execute_trade" /\ last.type \in {"BUY", "SELL"}
        /\ last.quantity <= 0) =>
        /\ last.result = "False"
        /\ last.msg # MsgEmpty
        /\ Untouched

\* C8: when the snapshot write of execute_trade fails, the call does not
\* report success and the session account is what it was before the call.
C8_FailedSaveRollsBack ==
    (last.op = "execute_trade" /\ last.failed = "save") =>
        /\ last.result # "True"
        /\ Now = pre.acc

\* C9: a trade that returns True has written the snapshot of the account as
\* the trade left it and appended exactly one log row carrying the trade's
\* action, instrument, quantity, price and user; whenever the log grew the
\* snapshot holding that trade had been written first; a trade that returns
\* False has done neither.
C9_SnapshotThenOneLogRow ==
    last.op = "execute_trade" =>
        /\ last.result = "True" =>
              /\ last.saved
              /\ user_state[last.user] = Row(Now)
              /\ trade_logs = Append(pre.logs,
                     LogEntry(last.user, last.type, last.instrument,
                              last.quantity, last.price))
        /\ trade_logs # pre.logs =>
              /\ last.saved
              /\ user_state[last.user] = Row(Now)
        /\ last.result = "False" =>
              /\ user_state[last.user] = pre.row
              /\ trade_logs = pre.logs

\* C9's case: a second successful trade, its snapshot replacing the first
\* one's and its row following the first one's.
C9_Witness ==
    /\ last.op = "execute_trade"
    /\ last.result = "True"
    /\ Len(trade_logs) = 2
    /\ user_state[last.user] # pre.row
    /\ user_state[last.user] = Row(Now)

\* C10: when the snapshot was written and the log append fails, the call
\* still returns True, and the snapshot and the session account keep the
\* trade.
C10_LogFailureKeepsTradeSuccessful ==
    (last.op = "execute_trade" /\ last.failed = "log") =>
        /\ last.result = "True"
        /\ last.saved
        /\ user_state[last.user] = Row(Now)
        /\ Now # pre.acc

\* The account a row of user_state holds.
Snapshot(row) ==
    [balance |-> row.balance, pnl |-> row.pnl, positions |-> row.positions]

\* C11: when the wallet is built for the user who has just logged in, the
\* session account is that user's persisted snapshot, or the defaults
\* (100000, 0, no positions) when the user has none, whoever used the
\* browser session before.
C11_LoginLoadsOwnAccount ==
    last.op = "login" =>
        Now = (IF pre.row.exists THEN Snapshot(pre.row) ELSE DefaultAccount)

\* Cash that the trades of a log add to a balance: sells credit, buys debit.
RECURSIVE CashFlow(_)
CashFlow(entries) ==
    IF entries = <<>> THEN Zero
    ELSE LET e == Head(entries)
             amount == RMul(R(e.qty), e.price)
         IN  RAdd(IF e.action = "SELL" THEN amount ELSE RSub(Zero, amount),
                  CashFlow(Tail(entries)))

\* C12: no update is lost: the persisted balance of a user is 100000 plus the
\* cash of every successful trade made for the user, from whichever session,
\* since the user's last reset.
C12_NoLostUpdate ==
    \A u \in Users :
        user_state[u].exists =>
            user_state[u].balance = RAdd(R(InitialBalance), CashFlow(journal[u]))

\* The last call was the page run's update_pnl_heatmap.
LastMark == last.op = "update_pnl_heatmap"

\* What a snapshot is authoritative for: per position, in list order, the
\* instrument, the quantity and the average price.
RECURSIVE Holdings(_)
Holdings(positions) ==
    IF positions = <<>> THEN <<>>
    ELSE <<[instrument |-> Head(positions).instrument,
            qty |-> Head(positions).qty,
            avg_price |-> Head(positions).avg_price]>>
             \o Holdings(Tail(positions))

\* The sum of the positions' unrealized_pnl, an absent key counting 0.
RECURSIVE Unrealized(_)
Unrealized(positions) ==
    IF positions = <<>> THEN Zero
    ELSE RAdd(IF Head(positions).unrealized_pnl = None THEN Zero
              ELSE Head(positions).unrealized_pnl,
              Unrealized(Tail(positions)))

\* C13: update_pnl_heatmap leaves balance, realized P&L and every position's
\* place, instrument, quantity and avg_price as they were, writes neither the
\* snapshot nor the log, and called again with the same price map returns
\* the same total and changes nothing more.
C13_MarkToMarketIsPure ==
    LastMark =>
        /\ Now.balance = pre.acc.balance
        /\ Now.pnl = pre.acc.pnl
        /\ Holdings(Now.positions) = Holdings(pre.acc.positions)
        /\ user_state[last.user] = pre.row
        /\ trade_logs = pre.logs
        /\ LET again == UpdatePnlHeatmap(Now, last.prices)
           IN  again.total = last.total /\ again.acc = Now

\* C13's case: two positions are marked, one at a live price and one with
\* its key missing, and the total differs from the realized P&L.
C13_Witness ==
    /\ LastMark
    /\ Len(Now.positions) = 2
    /\ \E i \in Instruments : last.prices[i] = None
    /\ last.total # Now.pnl

\* C14: every position whose instrument has a key in the price
\* map, whatever the price (0 included), gets unrealized_pnl = (live price -
\* avg_price) x quantity and current_price = live price, and the total is
\* realized P&L plus the positions' unrealized P&L.
C14_EveryPresentPriceApplied ==
    LastMark =>
        /\ \A k \in 1..Len(Now.positions) :
              LET ltp == last.prices[Now.positions[k].instrument]
                  pos == Now.positions[k]
              IN  ltp # None =>
                      /\ pos.current_price = ltp
                      /\ pos.unrealized_pnl =
                             RMul(RSub(ltp, pos.avg_price), R(pos.qty))
        /\ last.total = RAdd(Now.pnl, Unrealized(Now.positions))

\* C15: a position whose instrument has no key in the price map keeps its
\* previous unrealized_pnl (0 when it had none), that value is part of the
\* returned total, and no position is dropped.
C15_AbsentPriceKeepsPrevious ==
    LastMark =>
        /\ Len(Now.positions) = Len(pre.acc.positions)
        /\ \A k \in 1..Len(Now.positions) :
              last.prices[Now.positions[k].instrument] = None =>
                  /\ Now.positions[k].unrealized_pnl =
                         (IF pre.acc.positions[k].unrealized_pnl = None THEN Zero
                          ELSE pre.acc.positions[k].unrealized_pnl)
                  /\ Now.positions[k].current_price =
                         pre.acc.positions[k].current_price
        /\ last.total = RAdd(Now.pnl, Unrealized(Now.positions))

\* C15's case: a position marked at a live price before is refreshed with
\* its key missing and keeps a non-zero unrealized P&L, which the total
\* carries.
C15_Witness ==
    /\ LastMark
    /\ \E k \in 1..Len(Now.positions) :
          /\ last.prices[Now.positions[k].instrument] = None
          /\ pre.acc.positions[k].unrealized_pnl # None
          /\ Now.positions[k].unrealized_pnl # Zero
    /\ last.total # Now.pnl

\* The last call was reset_account.
LastReset == last.op = "reset_account"

\* The rows of the log table that belong to one user, in table order, and
\* the rows that belong to anyone else.
RowsOf(logs, user) == SelectSeq(logs, LAMBDA e : e.username = user)
RowsOfOthers(logs, user) == SelectSeq(logs, LAMBDA e : e.username # user)

\* C16: reset_account that completes leaves balance 100000, realized P&L 0
\* and no positions in memory and in the user's snapshot, deletes every log
\* row of that user and no row of another user, and a load of the user in a
\* fresh session then gives the defaults.
C16_ResetRestoresDefaults ==
    (LastReset /\ last.result = "True") =>
        /\ Now = DefaultAccount
        /\ user_state[last.user] = Row(DefaultAccount)
        /\ RowsOf(trade_logs, last.user) = <<>>
        /\ trade_logs = RowsOfOthers(pre.logs, last.user)
        /\ LoadUserData(Unloaded, user_state[last.user]).st
               = Loaded(DefaultAccount)

\* C16's case: the account reset had a changed balance, a realized P&L or an
\* open position and log rows of its own, and the table still holds the
\* other user's row afterwards.
C16_Witness ==
    /\ LastReset
    /\ last.result = "True"
    /\ pre.acc # DefaultAccount
    /\ RowsOf(pre.logs, last.user) # <<>>
    /\ RowsOfOthers(trade_logs, last.user) # <<>>

\* C17: after reset_account, whether it returned or raised, either the
\* snapshot is the default account and the user has no log rows, or snapshot
\* and log table are what they were before the call.
C17_ResetIsAtomic ==
    LastReset =>
        \/ /\ user_state[last.user] = Row(DefaultAccount)
           /\ RowsOf(trade_logs, last.user) = <<>>
        \/ /\ user_state[last.user] = pre.row
           /\ trade_logs = pre.logs

\* C18: in one session without storage failures, whenever the wallet is
\* loaded the user's snapshot exists and equals the session account in
\* balance, realized P&L and the positions' instrument, quantity and
\* avg_price.
C18_SnapshotFollowsMemory ==
    \A s \in Sessions :
        (username[s] # NoUser /\ state[s].loaded) =>
            LET row == user_state[username[s]]
            IN  /\ row.exists
                /\ row.balance = state[s].balance
                /\ row.pnl = state[s].pnl
                /\ Holdings(row.positions) = Holdings(state[s].positions)

\* C18's case: a successful trade on an account that load created (no row
\* before the session) left an open position, in memory and in the snapshot.
C18_Witness ==
    /\ LastTrade("BUY")
    /\ last.result = "True"
    /\ last.user = "u1"
    /\ Now.positions # <<>>
    /\ Now.balance # R(InitialBalance)
    /\ user_state["u1"].exists

\* s is t with rows added after its last row.
IsPrefix(t, s) == Len(t) <= Len(s) /\ SubSeq(s, 1, Len(t)) = t

\* C19: the log rows of each user are the successful trades made for that
\* user since the user's last reset, in the order made; execute_trade and
\* update_pnl_heatmap only ever add rows after the last row, and a trade
\* that did not succeed adds none.
C19_LogIsAppendOnly ==
    /\ \A u \in Users : RowsOf(trade_logs, u) = journal[u]
    /\ last.op \in {"execute_trade", "update_pnl_heatmap"} =>
           /\ IsPrefix(pre.logs, trade_logs)
           /\ last.result # "True" => trade_logs = pre.logs

\* C19's case: the user's second successful trade since the reset is logged
\* after the first, behind the other user's row.
C19_Witness ==
    /\ last.op = "execute_trade"
    /\ last.result = "True"
    /\ Len(RowsOf(trade_logs, last.user)) = 2
    /\ RowsOf(trade_logs, last.user)[1] # RowsOf(trade_logs, last.user)[2]
    /\ RowsOfOthers(trade_logs, last.user) # <<>>

\* The instruments of a position list, in list order.
RECURSIVE Keys(_)
Keys(positions) ==
    IF positions = <<>> THEN <<>>
    ELSE <<Head(positions).instrument>> \o Keys(Tail(positions))

\* C20: no two positions of a session's list have the same instrument, and
\* a successful BUY of an instrument that has a position leaves the list
\* with the same instruments at the same places.
C20_OnePositionPerInstrument ==
    /\ \A s \in Sessions :
          \A i, j \in 1..Len(state[s].positions) :
              state[s].positions[i].instrument = state[s].positions[j].instrument
                  => i = j
    /\ (LastTrade("BUY") /\ last.result = "True" /\ PlaceBefore # 0) =>
           Keys(Now.positions) = Keys(pre.acc.positions)

\* C20's case: a BUY of the instrument of the first of two positions.
C20_Witness ==
    /\ LastTrade("BUY")
    /\ last.result = "True"
    /\ PlaceBefore = 1
    /\ Len(Now.positions) = 2
    /\ Now.positions[1].qty > pre.acc.positions[1].qty

\* C21: with every trade issued for a quantity > 0 at a price >= 0, between
\* refreshes and resets, every position of the session account and of the
\* snapshot has a quantity > 0, and a SELL of everything held of an
\* instrument leaves no position of that instrument.
C21_OpenQuantityPositive ==
    /\ \A s \in Sessions :
          \A k \in 1..Len(state[s].positions) : state[s].positions[k].qty > 0
    /\ \A u \in Users :
          user_state[u].exists =>
              \A k \in 1..Len(user_state[u].positions) :
                  user_state[u].positions[k].qty > 0
    /\ (LastTrade("SELL") /\ last.result = "True" /\ PlaceBefore # 0) =>
           IF last.quantity = HeldBefore
           THEN Held(Now.positions, last.instrument) = 0
           ELSE Now.positions[PlaceBefore].qty = HeldBefore - last.quantity

\* C21's case: the SELL that brings the first of two positions to quantity
\* 0; the other position stays.
C21_Witness ==
    /\ LastTrade("SELL")
    /\ last.result = "True"
    /\ Len(pre.acc.positions) = 2
    /\ PlaceBefore = 1
    /\ last.quantity = HeldBefore
    /\ Len(Now.positions) = 1

\* The balance fell in the last call.
BalanceFell == last.op # "none" /\ RLt(Now.balance, pre.acc.balance)

\* The last call was a successful BUY whose cost did not exceed the balance.
AffordedBuy ==
    /\ LastTrade("BUY")
    /\ last.result = "True"
    /\ RGeq(pre.acc.balance, LastCost)
    /\ Now.balance = RSub(pre.acc.balance, LastCost)

\* C22: with every trade issued for a quantity > 0 at a price >= 0 the
\* balance is never negative, and whenever the balance falls the call was a
\* successful BUY whose cost did not exceed the balance.
C22_BalanceFallsOnlyInBuy ==
    /\ \A s \in Sessions : state[s].loaded => RGeq(state[s].balance, Zero)
    /\ BalanceFell => AffordedBuy

\* C22 amended: the same, except that reset_account also lowers a balance
\* above 100000, to 100000.
C22_BalanceFallsOnlyInBuyOrReset ==
    /\ \A s \in Sessions : state[s].loaded => RGeq(state[s].balance, Zero)
    /\ BalanceFell =>
           \/ AffordedBuy
           \/ LastReset /\ Now.balance = R(InitialBalance)

\* C22's case: a BUY whose cost equals the balance succeeds and leaves 0.
C22_Witness ==
    /\ LastTrade("BUY")
    /\ last.result = "True"
    /\ LastCost = pre.acc.balance
    /\ Now.balance = Zero

\* A successful SELL of the instrument of the last call is among the user's
\* trades before that call.
SoldBefore ==
    \E k \in 1..(Len(journal[last.user]) - 1) :
        /\ journal[last.user][k].action = "SELL"
        /\ journal[last.user][k].instrument = last.instrument

\* C23: a successful BUY of an instrument that was sold before and has no
\* position any more leaves the positions held as they were and adds, after
\* the last of them, a position with the quantity of this buy and the price
\* of this buy as avg_price.
C23_BuyAfterCloseStartsFresh ==
    (LastTrade("BUY") /\ last.result = "True" /\ SoldBefore /\ PlaceBefore = 0) =>
        /\ Len(Now.positions) = Len(pre.acc.positions) + 1
        /\ SubSeq(Now.positions, 1, Len(pre.acc.positions)) = pre.acc.positions
        /\ LET new == Now.positions[Len(Now.positions)]
           IN  /\ new.instrument = last.instrument
               /\ new.qty = last.quantity
               /\ new.avg_price = last.price
               /\ new.status = "OPEN"

\* C23's case: an instrument bought at one price and sold off is bought
\* again, 2 at another price, while another position is held: the new
\* position is the second of the list.
C23_Witness ==
    /\ LastTrade("BUY")
    /\ last.result = "True"
    /\ SoldBefore
    /\ PlaceBefore = 0
    /\ Len(Now.positions) = 2
    /\ last.quantity = 2
    /\ last.price = R(100)
    /\ \E k \in 1..(Len(journal[last.user]) - 1) :
          /\ journal[last.user][k].action = "BUY"
          /\ journal[last.user][k].instrument = last.instrument
          /\ journal[last.user][k].price # last.price

\* sum of quantity x avg_price over a position list.
RECURSIVE CostBasis(_)
CostBasis(positions) ==
    IF positions = <<>> THEN Zero
    ELSE RAdd(RMul(R(Head(positions).qty), Head(positions).avg_price),
              CostBasis(Tail(positions)))

\* C24: in every state reached from a fresh or reset account through
\* trades, refreshes and resets, balance + sum of quantity x avg_price of
\* the open positions - realized P&L = 100000, in memory and in the
\* snapshot.
C24_CashConserved ==
    /\ \A s \in Sessions :
          (username[s] # NoUser /\ state[s].loaded) =>
              RSub(RAdd(state[s].balance, CostBasis(state[s].positions)),
                   state[s].pnl) = R(InitialBalance)
    /\ \A u \in Users :
          user_state[u].exists =>
              RSub(RAdd(user_state[u].balance, CostBasis(user_state[u].positions)),
                   user_state[u].pnl) = R(InitialBalance)

\* C24's case: part of a position with a fractional average price has been
\* sold, so the realized P&L is a fraction and a position is still open.
C24_Witness ==
    /\ LastTrade("SELL")
    /\ last.result = "True"
    /\ Now.positions # <<>>
    /\ Now.pnl[2] # 1

====
